---- MODULE Spec2Model ----
(***************************************************************************)
(* Movies API (backend/main.py, backend/database.py, backend/models.py).   *)
(* State: the two SQLite tables with their AUTOINCREMENT sequences, the    *)
(* clock, the tokens minted so far, the requests in flight in the          *)
(* threadpool (FastAPI runs the `def` endpoints concurrently, each on its  *)
(* own connection), the last response sent, and the session of the         *)
(* Streamlit frontend (frontend/app.py).                                   *)
(***************************************************************************)
EXTENDS Integers, Sequences, FiniteSets, TLC

VARIABLES users, movies, userSeq, movieSeq, now, issued, req, resp,
          session_state

vars ==
    <<users, movies, userSeq, movieSeq, now, issued, req, resp,
      session_state>>

(* ------------------------------ bounds --------------------------------- *)
\* rows the movies AUTOINCREMENT sequence may hand out
MaxMovies == 2
\* multi-statement requests (register, update_movie) in flight at once
MaxInFlight == 2
\* clock ticks, in token lifetimes
MaxClock == 1

Usernames == {"alice", "bob"}
Passwords == {"pw1", "pw2"}
Workers == 1..MaxInFlight
\* ids a request may name: every id the sequence can assign and one beyond
RequestIds == 1..(MaxMovies + 1)

(* ------------------------------ values --------------------------------- *)
\* Optional[...] values: NULL/None is the empty tuple, a value v is <<v>>.
NULL == <<>>
Some(v) == <<v>>

\* model_dump / request body with no field set
EmptyBody == [f \in {} |-> NULL]

\* column order of the INSERT in create_movie
Fields == <<"title", "director", "year", "genre", "rating", "description">>
FieldSet == {Fields[i] : i \in 1..Len(Fields)}

(* --------------------------- auth component ---------------------------- *)
\* Token lifetime, in clock ticks.
ACCESS_TOKEN_EXPIRE_MINUTES == 1

\* One-way password hash: an opaque value that is not the plain password.
get_password_hash(plain) == [bcrypt |-> plain]

verify_password(plain, hashed) == hashed = get_password_hash(plain)

\* A credential as sent in the Authorization header.
NoCredentials == [kind |-> "none", sub |-> "", exp |-> 0, sig |-> ""]
Malformed == [kind |-> "garbage", sub |-> "", exp |-> 0, sig |-> ""]
Jwt(sub, exp, sig) == [kind |-> "jwt", sub |-> sub, exp |-> exp, sig |-> sig]

\* Signed credential embedding the username claim and the expiry instant.
create_access_token(sub, expires_delta) == Jwt(sub, now + expires_delta, "ok")

\* Claims of a token whose signature and expiry verify, None otherwise.
decode_access_token(token) ==
    IF token.kind = "jwt" /\ token.sig = "ok" /\ now < token.exp
    THEN Some(token.sub)
    ELSE NULL

(* -------------------------- frontend values ---------------------------- *)
\* what st.session_state.token can hold: None, a str, or a bool
PyNone == [type |-> "NoneType", str |-> Malformed, truthy |-> FALSE]
PyTrue == [type |-> "bool", str |-> Malformed, truthy |-> TRUE]
PyStr(token) == [type |-> "str", str |-> token, truthy |-> TRUE]

\* headers={"Authorization": f"Bearer {token}"}: a str is sent as it is, any
\* other value as its repr ("Bearer True"), which is no token
Bearer(token) == IF token.type = "str" THEN token.str ELSE Malformed

(* ------------------------------ storage -------------------------------- *)
\* SELECT ... FROM users WHERE username = ?
SelectUserByUsername(username) == {u \in users : u.username = username}

\* SELECT ... FROM movies WHERE user_id = ?, in rowid order
RowsInRowidOrder(S) ==
    [i \in 1..Cardinality(S) |->
        CHOOSE r \in S : Cardinality({q \in S : q.id < r.id}) = i - 1]

\* fetchone() in place of fetchall(): the first of the caller's rows alone
SelectFirstMovieByUser(user_id) ==
    LET rows == RowsInRowidOrder({m \in movies : m.user_id = user_id})
    IN IF rows = <<>> THEN <<>> ELSE <<rows[1]>>

SelectMoviesByUser(user_id) ==
    RowsInRowidOrder({m \in movies : m.user_id = user_id})

\* the query below without the owner in its WHERE clause
SelectMovieByIdOnly(movie_id, user_id) == {m \in movies : m.id = movie_id}

\* SELECT ... FROM movies WHERE id = ? AND user_id = ?
SelectMovieByIdAndUser(movie_id, user_id) ==
    {m \in movies : m.id = movie_id /\ m.user_id = user_id}

\* SELECT ... FROM movies WHERE id = ?
SelectMovieById(movie_id) == {m \in movies : m.id = movie_id}

\* INTEGER PRIMARY KEY without AUTOINCREMENT: one more than the largest
\* rowid in the table
MaxRowidPlusOne(seq, rows) ==
    IF rows = {} THEN 1
    ELSE (CHOOSE r \in rows : \A q \in rows : q.id <= r.id).id + 1

\* id INTEGER PRIMARY KEY AUTOINCREMENT: one more than the largest rowid
\* the table ever held, which sqlite_sequence records
Autoincrement(seq, rows) == seq + 1

\* the fetched rows as a response body
AsList(S) == RowsInRowidOrder(S)

(* --------------------------- request models ---------------------------- *)
\* MovieCreate: title is a required str, the other fields default to None;
\* keys the model does not declare are ignored.
MovieCreateValid(body) == "title" \in DOMAIN body /\ body["title"] # NULL

MovieCreate(body) ==
    [f \in FieldSet |-> IF f \in DOMAIN body THEN body[f] ELSE NULL]

\* a dump that keeps undeclared keys, as under extra="allow"
DumpEveryKey(body) == body

\* model_dump() without exclude_unset: the fields the request left out
\* come back as None
DumpWithDefaults(body) ==
    [f \in FieldSet |-> IF f \in DOMAIN body THEN body[f] ELSE NULL]

\* MovieUpdate(...).model_dump(exclude_unset=True): exactly the declared
\* fields that the request set; keys the model does not declare are ignored.
model_dump_exclude_unset(body) ==
    [f \in DOMAIN body \cap FieldSet |-> body[f]]

\* the parameter tuple with director and genre in each other's place
InsertValuesSwapped(movie) ==
    <<movie["title"], movie["genre"], movie["year"], movie["director"],
      movie["rating"], movie["description"]>>

\* the parameter tuple of the INSERT of create_movie
InsertValues(movie) ==
    <<movie["title"], movie["director"], movie["year"], movie["genre"],
      movie["rating"], movie["description"]>>

\* the row the INSERT writes: the i-th value of the parameter tuple goes to
\* the i-th column of the column list
InsertRow(id, movie, user_id) ==
    LET vals == InsertValues(movie)
        col(f) == CHOOSE i \in 1..Len(Fields) : Fields[i] = f
    IN [id |-> id, title |-> vals[col("title")],
        director |-> vals[col("director")], year |-> vals[col("year")],
        genre |-> vals[col("genre")], rating |-> vals[col("rating")],
        description |-> vals[col("description")], user_id |-> user_id]

\* the dict create_movie returns
CreatedRecord(id, movie, user_id) ==
    [id |-> id, title |-> movie["title"], director |-> movie["director"],
     year |-> movie["year"], genre |-> movie["genre"],
     rating |-> movie["rating"], description |-> movie["description"],
     user_id |-> user_id]

\* a full replace: the nullable columns the request leaves out are nulled
SetClauseFullReplace(row, update_data) ==
    [c \in DOMAIN row |->
        IF c \in DOMAIN update_data THEN update_data[c]
        ELSE IF c \in FieldSet \ {"title"} THEN NULL ELSE row[c]]

\* an UPDATE torn in two: only the rating of update_data reaches the row
SetClauseRatingOnly(row, update_data) ==
    [c \in DOMAIN row |->
        IF c \in DOMAIN update_data /\ c = "rating"
        THEN update_data[c] ELSE row[c]]

\* UPDATE movies SET k1 = ?, ... on one row: one assignment per key of
\* update_data
SetClause(row, update_data) ==
    [c \in DOMAIN row |->
        IF c \in DOMAIN update_data THEN update_data[c] ELSE row[c]]

\* title TEXT NOT NULL
NotNullViolated(update_data) ==
    "title" \in DOMAIN update_data /\ update_data["title"] = NULL

(* ------------------------------ requests ------------------------------- *)
\* a threadpool slot with no request; one with a request holds the
\* handler's locals and the statement it runs next (pc)
Idle ==
    [op |-> "idle", pc |-> "", cred |-> NoCredentials, uid |-> 0,
     username |-> "", password |-> "", mid |-> 0, body |-> EmptyBody]

\* the last request answered, with its response: status, detail, body
\* (out), token, and whether a table was read or written for it (db)
NoResponse ==
    [op |-> "none", cred |-> NoCredentials, username |-> "", password |-> "",
     mid |-> 0, body |-> EmptyBody, status |-> 0, detail |-> "",
     out |-> <<>>, token |-> <<>>, db |-> FALSE]

Response(op, cred, mid, body, status, detail, out, db) ==
    [op |-> op, cred |-> cred, username |-> "", password |-> "",
     mid |-> mid, body |-> body, status |-> status, detail |-> detail,
     out |-> out, token |-> <<>>, db |-> db]

AuthResponse(op, username, password, status, detail, token) ==
    [op |-> op, cred |-> NoCredentials, username |-> username,
     password |-> password, mid |-> 0, body |-> EmptyBody,
     status |-> status, detail |-> detail, out |-> <<>>, token |-> token,
     db |-> TRUE]

\* HTTPBearer() and get_current_user: the caller's user row, or the error
\* the dependency raises. bearer_status is the status HTTPBearer answers a
\* request without credentials with (403 or 401, by FastAPI release). A
\* token that verifies always carries a username claim, so the
\* `token_data.username is None` arm coincides with the undecodable one.
get_current_user(cred, bearer_status) ==
    IF cred.kind = "none"
    THEN [status |-> bearer_status, detail |-> "Not authenticated",
          id |-> 0, username |-> "", db |-> FALSE]
    ELSE IF decode_access_token(cred) = NULL
    THEN [status |-> 401, detail |-> "Invalid authentication credentials",
          id |-> 0, username |-> "", db |-> FALSE]
    ELSE LET rows == SelectUserByUsername(decode_access_token(cred)[1])
         IN IF rows = {}
            THEN [status |-> 404, detail |-> "User not found",
                  id |-> 0, username |-> "", db |-> TRUE]
            ELSE LET u == CHOOSE r \in rows : TRUE
                 IN [status |-> 200, detail |-> "", id |-> u.id,
                     username |-> u.username, db |-> TRUE]

\* the statuses HTTPBearer(auto_error=True) may answer missing credentials
\* with: the installed FastAPI release decides, the source pins none
BearerStatuses == {401, 403}

Init ==
    /\ users = {}
    /\ movies = {}
    /\ userSeq = 0
    /\ movieSeq = 0
    /\ now = 0
    /\ issued = {}
    /\ req = [w \in Workers |-> Idle]
    /\ resp = NoResponse
    /\ session_state = [token |-> PyNone, username |-> NULL]

\* a step of the API or of the clock: no frontend session takes part in it
ApiOnly == UNCHANGED session_state

\* time passes
Tick ==
    /\ now < MaxClock
    /\ now' = now + 1
    /\ UNCHANGED <<users, movies, userSeq, movieSeq, issued, req, resp>>

\* register without its existence check
CheckSkipped(username) == FALSE

\* if cursor.fetchone(): of register
UsernameTaken(username) == SelectUserByUsername(username) # {}

\* register, up to the existence check
register_check(w, username, password) ==
    /\ req[w] = Idle
    /\ IF UsernameTaken(username)
       THEN /\ resp' = AuthResponse("register", username, password, 400,
                                    "Username already registered", <<>>)
            /\ UNCHANGED req
       ELSE /\ req' = [req EXCEPT ![w] =
                        [Idle EXCEPT !.op = "register", !.pc = "insert",
                                     !.username = username,
                                     !.password = password]]
            /\ UNCHANGED resp
    /\ UNCHANGED <<users, movies, userSeq, movieSeq, now, issued>>

\* a username column without its UNIQUE constraint
NoUniqueConstraint(username) == FALSE

\* username TEXT UNIQUE NOT NULL: the INSERT of a stored username fails
\* (BINARY collation: usernames are compared byte for byte)
UniqueViolated(username) == \E u \in users : u.username = username

\* register, the INSERT (username is UNIQUE), the commit and the token
register_insert(w) ==
    /\ req[w].op = "register"
    /\ req' = [req EXCEPT ![w] = Idle]
    /\ IF UniqueViolated(req[w].username)
       THEN \* sqlite3.IntegrityError, caught nowhere
            /\ resp' = AuthResponse("register", req[w].username,
                                    req[w].password, 500,
                                    "Internal Server Error", <<>>)
            /\ UNCHANGED <<users, userSeq, issued>>
       ELSE LET token == create_access_token(req[w].username,
                                             ACCESS_TOKEN_EXPIRE_MINUTES)
            IN /\ users' = users \cup
                     {[id |-> userSeq + 1, username |-> req[w].username,
                       hashed_password |->
                           get_password_hash(req[w].password)]}
               /\ userSeq' = userSeq + 1
               /\ issued' = issued \cup {token}
               /\ resp' = AuthResponse("register", req[w].username,
                                       req[w].password, 200, "", <<token>>)
    /\ UNCHANGED <<movies, movieSeq, now>>

\* `if user_row and not verify_password(...)` in place of the test of login
LoginAcceptsAbsent(username, password) ==
    \A u \in SelectUserByUsername(username) :
        verify_password(password, u.hashed_password)

\* not (not user_row or not verify_password(...)) of login
LoginAccepts(username, password) ==
    \E u \in SelectUserByUsername(username) :
        verify_password(password, u.hashed_password)

\* a detail that tells which arm of the test failed
LoginFailureNamesArm(user_rows) ==
    IF user_rows = {} THEN "Unknown username" ELSE "Incorrect password"

\* the detail of the one HTTPException both arms of the test of login raise
LoginFailure(user_rows) == "Incorrect username or password"

login(username, password) ==
    /\ IF ~LoginAccepts(username, password)
       THEN /\ resp' = AuthResponse("login", username, password, 401,
                                    LoginFailure(
                                        SelectUserByUsername(username)),
                                    <<>>)
            /\ UNCHANGED issued
       ELSE LET token == create_access_token(username,
                                             ACCESS_TOKEN_EXPIRE_MINUTES)
            IN /\ issued' = issued \cup {token}
               /\ resp' = AuthResponse("login", username, password, 200, "",
                                       <<token>>)
    /\ UNCHANGED <<users, movies, userSeq, movieSeq, now, req>>

\* a protected request turned down by its dependency
Rejected(op, cred, mid, body, me) ==
    Response(op, cred, mid, body, me.status, me.detail, <<>>, me.db)

get_movies(cred, bearer_status) ==
    LET me == get_current_user(cred, bearer_status)
    IN /\ resp' = IF me.status # 200
                  THEN Rejected("get_movies", cred, 0, EmptyBody, me)
                  ELSE Response("get_movies", cred, 0, EmptyBody, 200, "",
                                SelectMoviesByUser(me.id), TRUE)
       /\ UNCHANGED <<users, movies, userSeq, movieSeq, now, issued, req>>

create_movie(cred, bearer_status, body) ==
    LET me == get_current_user(cred, bearer_status)
    IN IF me.status # 200
       THEN /\ resp' = Rejected("create_movie", cred, 0, body, me)
            /\ UNCHANGED <<users, movies, userSeq, movieSeq, now, issued,
                           req>>
       ELSE IF ~MovieCreateValid(body)
       THEN /\ resp' = Response("create_movie", cred, 0, body, 422,
                                "validation error", <<>>, TRUE)
            /\ UNCHANGED <<users, movies, userSeq, movieSeq, now, issued,
                           req>>
       ELSE LET movie_id == Autoincrement(movieSeq, movies)
            IN /\ movieSeq < MaxMovies
               /\ movies' = movies \cup
                     {InsertRow(movie_id, MovieCreate(body), me.id)}
               /\ movieSeq' = movie_id
               /\ resp' = Response("create_movie", cred, movie_id, body,
                                   201, "",
                                   <<CreatedRecord(movie_id,
                                                   MovieCreate(body),
                                                   me.id)>>,
                                   TRUE)
               /\ UNCHANGED <<users, userSeq, now, issued, req>>

get_movie(cred, bearer_status, movie_id) ==
    LET me == get_current_user(cred, bearer_status)
        movie == SelectMovieByIdAndUser(movie_id, me.id)
    IN /\ resp' = IF me.status # 200
                  THEN Rejected("get_movie", cred, movie_id, EmptyBody, me)
                  ELSE IF movie = {}
                  THEN Response("get_movie", cred, movie_id, EmptyBody, 404,
                                "Movie not found", <<>>, TRUE)
                  ELSE Response("get_movie", cred, movie_id, EmptyBody, 200,
                                "", AsList(movie), TRUE)
       /\ UNCHANGED <<users, movies, userSeq, movieSeq, now, issued, req>>

\* update_movie, up to the ownership check
update_movie_check(w, cred, bearer_status, movie_id, body) ==
    LET me == get_current_user(cred, bearer_status)
    IN /\ req[w] = Idle
       /\ IF me.status # 200
          THEN /\ resp' = Rejected("update_movie", cred, movie_id, body, me)
               /\ UNCHANGED req
          ELSE IF SelectMovieByIdAndUser(movie_id, me.id) = {}
          THEN /\ resp' = Response("update_movie", cred, movie_id, body, 404,
                                   "Movie not found", <<>>, TRUE)
               /\ UNCHANGED req
          ELSE /\ req' = [req EXCEPT ![w] =
                           [Idle EXCEPT
                              !.op = "update_movie",
                              !.pc = IF DOMAIN model_dump_exclude_unset(body)
                                        # {}
                                     THEN "write" ELSE "read",
                              !.cred = cred, !.uid = me.id,
                              !.mid = movie_id, !.body = body]]
               /\ UNCHANGED resp
       /\ UNCHANGED <<users, movies, userSeq, movieSeq, now, issued>>

\* the rows of the table after UPDATE ... WHERE id = ? AND user_id = ?
UpdateWhere(update_data, movie_id, user_id) ==
    {IF m \in SelectMovieByIdAndUser(movie_id, user_id)
     THEN SetClause(m, update_data) ELSE m : m \in movies}

\* update_movie, the UPDATE statement and its commit
update_movie_write(w) ==
    /\ req[w].op = "update_movie"
    /\ req[w].pc = "write"
    /\ IF /\ NotNullViolated(model_dump_exclude_unset(req[w].body))
          /\ SelectMovieByIdAndUser(req[w].mid, req[w].uid) # {}
       THEN \* sqlite3.IntegrityError, caught nowhere
            /\ resp' = Response("update_movie", req[w].cred, req[w].mid,
                                req[w].body, 500, "Internal Server Error",
                                <<>>, TRUE)
            /\ req' = [req EXCEPT ![w] = Idle]
            /\ UNCHANGED movies
       ELSE /\ movies' = UpdateWhere(model_dump_exclude_unset(req[w].body),
                                     req[w].mid, req[w].uid)
            /\ req' = [req EXCEPT ![w].pc = "read"]
            /\ UNCHANGED resp
    /\ UNCHANGED <<users, userSeq, movieSeq, now, issued>>

\* update_movie, the final SELECT and dict(updated_movie)
update_movie_read(w) ==
    /\ req[w].op = "update_movie"
    /\ req[w].pc = "read"
    /\ req' = [req EXCEPT ![w] = Idle]
    /\ resp' = IF SelectMovieById(req[w].mid) = {}
               THEN \* dict(None): TypeError, caught nowhere
                    Response("update_movie", req[w].cred, req[w].mid,
                             req[w].body, 500, "Internal Server Error",
                             <<>>, TRUE)
               ELSE Response("update_movie", req[w].cred, req[w].mid,
                             req[w].body, 200, "",
                             AsList(SelectMovieById(req[w].mid)), TRUE)
    /\ UNCHANGED <<users, movies, userSeq, movieSeq, now, issued>>

\* the rows of the table after DELETE ... WHERE id = ?
DeleteWhereIdOnly(movie_id, user_id) ==
    movies \ SelectMovieById(movie_id)

\* the rows of the table after DELETE ... WHERE id = ? AND user_id = ?
DeleteWhere(movie_id, user_id) ==
    movies \ SelectMovieByIdAndUser(movie_id, user_id)

\* a delete that removes the row by id, commits, and tests the owner last
delete_then_check_owner(cred, bearer_status, movie_id) ==
    LET me == get_current_user(cred, bearer_status)
    IN IF me.status # 200
       THEN /\ resp' = Rejected("delete_movie", cred, movie_id, EmptyBody,
                                me)
            /\ UNCHANGED <<users, movies, userSeq, movieSeq, now, issued,
                           req>>
       ELSE /\ movies' = movies \ SelectMovieById(movie_id)
            /\ resp' = IF SelectMovieByIdAndUser(movie_id, me.id) = {}
                       THEN Response("delete_movie", cred, movie_id,
                                     EmptyBody, 404, "Movie not found", <<>>,
                                     TRUE)
                       ELSE Response("delete_movie", cred, movie_id,
                                     EmptyBody, 204, "", <<>>, TRUE)
            /\ UNCHANGED <<users, userSeq, movieSeq, now, issued, req>>

delete_movie(cred, bearer_status, movie_id) ==
    LET me == get_current_user(cred, bearer_status)
        rowcount == Cardinality(movies \ DeleteWhere(movie_id, me.id))
    IN IF me.status # 200
       THEN /\ resp' = Rejected("delete_movie", cred, movie_id, EmptyBody,
                                me)
            /\ UNCHANGED <<users, movies, userSeq, movieSeq, now, issued,
                           req>>
       ELSE IF rowcount = 0
       THEN /\ resp' = Response("delete_movie", cred, movie_id, EmptyBody,
                                404, "Movie not found", <<>>, TRUE)
            /\ UNCHANGED <<users, movies, userSeq, movieSeq, now, issued,
                           req>>
       ELSE /\ movies' = DeleteWhere(movie_id, me.id)
            /\ resp' = Response("delete_movie", cred, movie_id, EmptyBody,
                                204, "", <<>>, TRUE)
            /\ UNCHANGED <<users, userSeq, movieSeq, now, issued, req>>

(* ------------------------------ frontend ------------------------------- *)
\* main(): the login page is shown while the session token is falsy, the
\* movie manager otherwise; the script is idle between two reruns
OnLoginPage == ~session_state.token.truthy /\ req[1] = Idle
OnMovieManager == session_state.token.truthy /\ req[1] = Idle

\* Login tab: login() posts the form and returns the access_token of a 200
\* response, None otherwise; a truthy result is stored in the session
show_login_page_login(username, password) ==
    /\ OnLoginPage
    /\ login(username, password)
    /\ session_state' =
          IF resp'.status = 200
          THEN [token |-> PyStr(resp'.token[1]), username |-> Some(username)]
          ELSE session_state

\* Register tab, up to the request being sent: the form has passed the
\* checks of the tab; a 400 makes register() return False
show_login_page_register(username, password) ==
    /\ OnLoginPage
    /\ register_check(1, username, password)
    /\ UNCHANGED session_state

\* Register tab, the response: register() returns True for a 200 or 201
\* and False otherwise, and `token = register(...)` is stored if truthy
show_login_page_registered ==
    /\ register_insert(1)
    /\ session_state' =
          IF resp'.status \in {200, 201}
          THEN [token |-> PyTrue, username |-> Some(req[1].username)]
          ELSE session_state

\* the movie manager lists the movies with the session token
show_movie_manager_get_movies ==
    /\ OnMovieManager
    /\ get_movies(Bearer(session_state.token), 403)
    /\ UNCHANGED session_state

\* the Add Movie form, submitted with the session token
show_movie_manager_create_movie(body) ==
    /\ OnMovieManager
    /\ create_movie(Bearer(session_state.token), 403, body)
    /\ UNCHANGED session_state

\* the Logout button
show_movie_manager_logout ==
    /\ OnMovieManager
    /\ session_state' = [token |-> PyNone, username |-> NULL]
    /\ UNCHANGED <<users, movies, userSeq, movieSeq, now, issued, req, resp>>

(* ------------------------------- inputs -------------------------------- *)
\* credentials a client can present: what was minted, forgeries of it, a
\* string that is no token, and no Authorization header at all
Forged == {Jwt(u, MaxClock + ACCESS_TOKEN_EXPIRE_MINUTES, "forged") :
              u \in Usernames}
Credentials == issued \cup Forged \cup {Malformed, NoCredentials}
\* a credential with the status HTTPBearer would answer its absence with
Presented ==
    ((Credentials \ {NoCredentials}) \X {403})
        \cup ({NoCredentials} \X BearerStatuses)

\* handles that differ in case alone
Handles == {"alice", "Alice"}

\* passwords the Register tab accepts (four characters or more)
FormPasswords == {"pw1234", "pw5678"}

FullBody ==
    [title |-> Some("Dune"), director |-> Some("Villeneuve"),
     year |-> Some("2021"), genre |-> Some("scifi"),
     rating |-> Some("8.0"), description |-> Some("spice")]
\* with the title empty, null and missing
CreateBodies ==
    {FullBody, [title |-> Some("")], [title |-> NULL],
     [director |-> Some("Lynch")]}
\* sparse bodies: nothing, one field, a nullable field nulled, title nulled
UpdateBodies ==
    {EmptyBody, [rating |-> Some("9.5")],
     [title |-> NULL, rating |-> Some("1.0")], [director |-> NULL]}
\* updates that race: both set the rating, each sets one field the other
\* leaves out, a third nulls the title next to a rating
RacingBodies ==
    {[rating |-> Some("9.5"), director |-> Some("Lynch")],
     [rating |-> Some("1.0"), genre |-> Some("noir")],
     [title |-> NULL, rating |-> Some("5.0")]}
\* bodies that also carry keys MovieUpdate does not declare
ForeignKeyBodies ==
    {[rating |-> Some("9.5"), user_id |-> u, id |-> MaxMovies + 1] :
        u \in 1..Cardinality(Usernames)}

\* The catalogue of two users: clients holding the tokens they were issued,
\* one multi-statement request in flight among the single-statement ones.
Next ==
    \/ ApiOnly /\ \E u \in Usernames : register_check(1, u, "pw1")
    \/ ApiOnly /\ register_insert(1)
    \/ ApiOnly /\ \E c \in issued : get_movies(c, 403)
    \/ ApiOnly /\ \E c \in issued : create_movie(c, 403, FullBody)
    \/ ApiOnly /\ \E c \in issued, i \in RequestIds : get_movie(c, 403, i)
    \/ ApiOnly /\ \E c \in issued, i \in RequestIds, body \in ForeignKeyBodies :
          update_movie_check(1, c, 403, i, body)
    \/ ApiOnly /\ update_movie_write(1)
    \/ ApiOnly /\ update_movie_read(1)
    \/ ApiOnly /\ \E c \in issued, i \in RequestIds : delete_movie(c, 403, i)

Spec == Init /\ [][Next]_vars

\* The fields of one user's movies: every create and update body.
NextFields ==
    \/ ApiOnly /\ register_check(1, "alice", "pw1")
    \/ ApiOnly /\ register_insert(1)
    \/ ApiOnly /\ \E c \in issued : get_movies(c, 403)
    \/ ApiOnly /\ \E c \in issued, body \in CreateBodies :
          create_movie(c, 403, body)
    \/ ApiOnly /\ \E c \in issued, i \in RequestIds : get_movie(c, 403, i)
    \/ ApiOnly /\ \E c \in issued, i \in RequestIds, body \in UpdateBodies :
          update_movie_check(1, c, 403, i, body)
    \/ ApiOnly /\ update_movie_write(1)
    \/ ApiOnly /\ update_movie_read(1)
    \/ ApiOnly /\ \E c \in issued, i \in RequestIds : delete_movie(c, 403, i)

SpecFields == Init /\ [][NextFields]_vars

\* Registration: racing register requests and logins, two passwords.
NextRegister ==
    \/ ApiOnly /\ \E w \in Workers, u \in Usernames, p \in Passwords :
          register_check(w, u, p)
    \/ ApiOnly /\ \E w \in Workers : register_insert(w)
    \/ ApiOnly /\ \E u \in Usernames, p \in Passwords : login(u, p)
    \/ ApiOnly /\ \E c \in issued : get_movies(c, 403)

SpecRegister == Init /\ [][NextRegister]_vars

\* Tokens: the clock, and every kind of credential on every protected
\* operation.
NextAuth ==
    \/ ApiOnly /\ Tick
    \/ ApiOnly /\ \E u \in Usernames : register_check(1, u, "pw1")
    \/ ApiOnly /\ register_insert(1)
    \/ ApiOnly /\ \E u \in Usernames, p \in Passwords : login(u, p)
    \/ ApiOnly /\ \E a \in Presented : get_movies(a[1], a[2])
    \/ ApiOnly /\ \E a \in Presented :
          create_movie(a[1], a[2], [title |-> Some("Dune")])
    \/ ApiOnly /\ \E a \in Presented : get_movie(a[1], a[2], 1)
    \/ ApiOnly /\ \E a \in Presented :
          update_movie_check(1, a[1], a[2], 1, EmptyBody)
    \/ ApiOnly /\ update_movie_read(1)
    \/ ApiOnly /\ \E a \in Presented : delete_movie(a[1], a[2], 1)

SpecAuth == Init /\ [][NextAuth]_vars

\* Racing updates: update_movie requests of the owner on the first movie,
\* one per threadpool slot, their statements interleaved.
NextConcurrent ==
    \/ ApiOnly /\ register_check(1, "alice", "pw1")
    \/ ApiOnly /\ register_insert(1)
    \/ ApiOnly /\ \E c \in issued : create_movie(c, 403, FullBody)
    \/ ApiOnly /\ \E w \in Workers, c \in issued, body \in RacingBodies :
          update_movie_check(w, c, 403, 1, body)
    \/ ApiOnly /\ \E w \in Workers : update_movie_write(w)
    \/ ApiOnly /\ \E w \in Workers : update_movie_read(w)

SpecConcurrent == Init /\ [][NextConcurrent]_vars

\* Keys: racing registrations of handles that differ in case alone, and
\* the movies of the registered users created and deleted.
NextKeys ==
    \/ ApiOnly /\ \E w \in Workers, u \in Handles : register_check(w, u, "pw1")
    \/ ApiOnly /\ \E w \in Workers : register_insert(w)
    \/ ApiOnly /\ \E c \in issued :
          create_movie(c, 403, [title |-> Some("Dune")])
    \/ ApiOnly /\ \E c \in issued, i \in RequestIds : delete_movie(c, 403, i)

SpecKeys == Init /\ [][NextKeys]_vars

\* One browser session of the frontend, the only client of the API.
NextFrontend ==
    \/ \E u \in Usernames, p \in FormPasswords : show_login_page_login(u, p)
    \/ \E u \in Usernames, p \in FormPasswords :
          show_login_page_register(u, p)
    \/ show_login_page_registered
    \/ show_movie_manager_get_movies
    \/ show_movie_manager_create_movie(FullBody)
    \/ show_movie_manager_logout

SpecFrontend == Init /\ [][NextFrontend]_vars

(* ------------------------------- claims -------------------------------- *)
\* the user row a credential's username claim names (0: none)
CallerId(cred) ==
    LET rows == {u \in users : u.username = cred.sub}
    IN IF rows = {} THEN 0 ELSE (CHOOSE u \in rows : TRUE).id

\* the rows with this id that the credential's user owns
Owned(movie_id, cred) ==
    {m \in movies : m.id = movie_id /\ m.user_id = CallerId(cred)}

\* this step answers a request
Answered == resp' # resp

\* this step is the UPDATE statement of the update_movie request in slot w
WriteStep(w) ==
    req[w].op = "update_movie" /\ req[w].pc = "write" /\ req'[w] # req[w]

ProtectedOps ==
    {"get_movies", "create_movie", "get_movie", "update_movie",
     "delete_movie"}

NotFound(r) ==
    r.status = 404 /\ r.detail = "Movie not found" /\ r.out = <<>>

\* what C1 asks of every step
C1_Step ==
    /\ (Answered /\ resp'.op = "get_movies" /\ resp'.status = 200) =>
          \A i \in 1..Len(resp'.out) :
              resp'.out[i].user_id = CallerId(resp'.cred)
    /\ (Answered /\ resp'.op \in {"get_movie", "delete_movie"}
          /\ Owned(resp'.mid, resp'.cred) = {}) =>
          NotFound(resp') /\ movies' = movies
    /\ (Answered /\ resp'.op = "update_movie") =>
          \A m \in movies :
              (m.id = resp'.mid /\ m.user_id # CallerId(resp'.cred)) =>
                  NotFound(resp') /\ movies' = movies
    /\ \A m \in movies :
          m \notin movies' =>
              \/ /\ Answered
                 /\ resp'.op = "delete_movie"
                 /\ resp'.mid = m.id
                 /\ CallerId(resp'.cred) = m.user_id
              \/ \E w \in Workers :
                    /\ WriteStep(w)
                    /\ req[w].mid = m.id
                    /\ CallerId(req[w].cred) = m.user_id

\* C1: ownership isolation. A list holds only the caller's rows; get, update
\* and delete on an id the caller does not own answer the same NotFound as
\* for an id that does not exist and leave the table as it was; a row is
\* changed or removed only by a statement of a request of its owner.
C1_OwnershipIsolation == [][C1_Step]_vars

\* B's update of A's movie was refused while A's row is in the table
C1_Witness ==
    /\ resp.op = "update_movie"
    /\ resp.status = 404
    /\ \E m \in movies : m.id = resp.mid /\ m.user_id # CallerId(resp.cred)

\* C2: a register request that issues no token is answered 400 "Username
\* already registered", also when it loses the race for the handle.
C2_RaceSurfacesAsConflict ==
    (resp.op = "register" /\ resp.token = <<>>) =>
        resp.status = 400 /\ resp.detail = "Username already registered"

\* C3: every stored movie has a non-empty, non-null title, and a create
\* whose title is missing, null or empty is answered with a validation
\* error.
C3_TitleNonEmpty ==
    /\ \A m \in movies : m.title # NULL /\ m.title # Some("")
    /\ (/\ resp.op = "create_movie"
        /\ \/ "title" \notin DOMAIN resp.body
           \/ resp.body["title"] \in {NULL, Some("")}) =>
          resp.status = 422

\* the UPDATE of slot w writes exactly the fields of its body into the
\* owner's row and leaves every other column and every other row alone
SparselyApplied(w) ==
    /\ Cardinality(movies') = Cardinality(movies)
    /\ \A m \in movies :
          IF m \in Owned(req[w].mid, req[w].cred)
          THEN \E n \in movies' :
                  /\ n.id = m.id
                  /\ n.user_id = m.user_id
                  /\ \A f \in FieldSet :
                        n[f] = IF f \in DOMAIN req[w].body
                               THEN req[w].body[f] ELSE m[f]
          ELSE m \in movies'

\* get_movie and update_movie return the row as it is stored
ReturnsStoredRow ==
    (/\ Answered
     /\ resp'.op \in {"get_movie", "update_movie"}
     /\ resp'.status = 200) =>
        \E m \in movies' : m.id = resp'.mid /\ resp'.out = <<m>>

NullsTitle(w) ==
    /\ "title" \in DOMAIN req[w].body
    /\ req[w].body["title"] = NULL
    /\ Owned(req[w].mid, req[w].cred) # {}

BadCredential(cred) ==
    \/ cred.kind # "jwt"
    \/ cred.sig # "ok"
    \/ cred.exp <= now

\* C5: a protected operation called with a missing, malformed, tampered or
\* expired token is answered Unauthorized (401) before any table is read
\* or written, and never gets as far as its first statement.
C5_Unauthorized ==
    [][/\ (/\ Answered
            /\ req' = req
            /\ resp'.op \in ProtectedOps
            /\ BadCredential(resp'.cred)) =>
              /\ resp'.status = 401
              /\ ~resp'.db
              /\ users' = users
              /\ movies' = movies
       /\ \A w \in Workers :
              (req[w] = Idle /\ req'[w].op = "update_movie") =>
                  ~BadCredential(req'[w].cred)]_vars

Registered(username) == \E u \in users : u.username = username

StoredHashMatches(username, password) ==
    \E u \in users :
        /\ u.username = username
        /\ u.hashed_password = get_password_hash(password)

\* what C6 asks of every step
C6_Step ==
    /\ \A w \in Workers :
          (req[w] = Idle /\ req'[w].op = "register") =>
              ~Registered(req'[w].username)
    /\ (Answered /\ resp'.op = "register" /\ req' = req) =>
          /\ Registered(resp'.username)
          /\ resp'.status = 400
          /\ resp'.token = <<>>
          /\ users' = users
          /\ issued' = issued
    /\ \A u \in users : u \in users'
    /\ (Answered /\ resp'.op = "register" /\ resp'.status = 200) =>
          \A un \in Usernames, p \in Passwords :
              (un = resp'.username) =>
                  (StoredHashMatches(un, p)' <=> (p = resp'.password))
    /\ (Answered /\ resp'.op = "login") =>
          /\ (resp'.status = 200) <=>
                StoredHashMatches(resp'.username, resp'.password)
          /\ (resp'.status # 200) => (resp'.token = <<>> /\ issued' = issued)

\* C6: once a handle is registered, a register request whose existence
\* check runs afterwards is answered 400 without a token and without
\* passing the check; user rows never change, so the password a handle was
\* registered with is the one password that logs in.
C6_DuplicateHandleConflict == [][C6_Step]_vars

\* a second register of a taken handle with another password was refused
C6_Witness ==
    /\ resp.op = "register"
    /\ resp.status = 400
    /\ Registered(resp.username)
    /\ ~StoredHashMatches(resp.username, resp.password)

\* what C7 asks of every step
C7_Step ==
    /\ (Answered /\ resp'.op = "delete_movie"
          /\ resp'.status \notin {401, 403}) =>
          IF Owned(resp'.mid, resp'.cred) = {}
          THEN NotFound(resp') /\ movies' = movies
          ELSE /\ resp'.status = 204
               /\ movies' = movies \ Owned(resp'.mid, resp'.cred)
    /\ (/\ resp.op = "delete_movie"
        /\ resp.status = 204
        /\ Answered
        /\ resp'.cred = resp.cred) =>
          /\ (resp'.op = "get_movie" /\ resp'.mid = resp.mid) =>
                NotFound(resp')
          /\ (resp'.op = "get_movies") =>
                \A i \in 1..Len(resp'.out) : resp'.out[i].id # resp.mid

\* C7: delete_movie on an id the caller does not own, or that does not
\* exist, answers NotFound and removes nothing; a delete by the owner
\* removes exactly that row, and the owner's next get_movie on the id is
\* NotFound and the next list does not hold it.
C7_DeleteNotFound == [][C7_Step]_vars

\* get_movie on an id that was assigned and is gone answered NotFound
C7_Witness ==
    /\ resp.op = "get_movie"
    /\ resp.status = 404
    /\ resp.mid <= movieSeq
    /\ \A m \in movies : m.id # resp.mid

\* what C8 asks of every step
C8_Step ==
    /\ (Answered /\ resp'.op = "login"
          /\ StoredHashMatches(resp'.username, resp'.password)) =>
          resp'.status = 200
    /\ (Answered /\ resp'.op \in {"login", "register"}
          /\ resp'.status = 200) =>
          /\ Len(resp'.token) = 1
          /\ \E t \in issued' :
                /\ t = resp'.token[1]
                /\ \E un \in Usernames :
                      /\ un = resp'.username
                      /\ decode_access_token(t)' = Some(un)
    /\ (Answered /\ resp'.op \in ProtectedOps /\ resp'.cred \in issued
          /\ now < resp'.cred.exp) =>
          /\ resp'.status \notin {401, 403}
          /\ resp'.detail # "User not found"
          /\ \E u \in users :
                /\ u.username = resp'.cred.sub
                /\ \A i \in 1..Len(resp'.out) : resp'.out[i].user_id = u.id
                /\ \A m \in movies \ movies' : m.user_id = u.id
                /\ \A m \in movies' \ movies : m.user_id = u.id
    /\ \A w \in Workers :
          (req[w] = Idle /\ req'[w].op = "update_movie") =>
              \E u \in users :
                  u.username = req'[w].cred.sub /\ u.id = req'[w].uid

\* C8: a login with the credentials a handle was registered with returns a
\* token; the token of a register or login decodes to that username; and
\* every protected operation given an issued token within its lifetime is
\* let in and acts as the user row of that username.
C8_TokenResolvesToUser == [][C8_Step]_vars

\* a movie was created with a token a login issued after the first tick
C8_Witness ==
    /\ resp.op = "create_movie"
    /\ resp.status = 201
    /\ resp.cred.exp = MaxClock + ACCESS_TOKEN_EXPIRE_MINUTES
    /\ Cardinality(users) = 2

\* no UPDATE of this movie has been written by a request still in flight
NoUpdateInFlight(movie_id) ==
    \A w \in Workers :
        ~(req[w].op = "update_movie" /\ req[w].mid = movie_id
            /\ req[w].pc = "read"
            /\ DOMAIN req[w].body \cap FieldSet # {})

\* what C9 asks of every step
C9_Step ==
    /\ (Answered /\ resp'.op = "create_movie" /\ resp'.status = 201) =>
          /\ Len(resp'.out) = 1
          /\ \A f \in FieldSet :
                resp'.out[1][f] = IF f \in DOMAIN resp'.body
                                  THEN resp'.body[f] ELSE NULL
          /\ resp'.out[1].id = resp'.mid
          /\ \A m \in movies : m.id < resp'.mid
          /\ resp'.out[1].user_id = CallerId(resp'.cred)
    /\ (/\ resp.op = "create_movie"
        /\ resp.status = 201
        /\ Answered
        /\ resp'.op = "get_movie"
        /\ resp'.cred = resp.cred
        /\ resp'.mid = resp.mid
        /\ NoUpdateInFlight(resp.mid)) =>
          resp'.status = 200 /\ resp'.out = resp.out

\* C9: create_movie answers the submitted fields with a fresh id and the
\* caller as owner and stores that record; a get_movie by the same user on
\* that id, with no update or delete in between, answers the same record.
C9_RoundTrip == [][C9_Step]_vars

\* a get answered every field of a create with all fields supplied
C9_Witness ==
    /\ resp.op = "get_movie"
    /\ resp.status = 200
    /\ \A f \in FieldSet : resp.out[1][f] = FullBody[f]
    /\ resp.out[1].id = resp.mid
    /\ resp.out[1].user_id = CallerId(resp.cred)

\* what C10 asks of every step
C10_Step ==
    /\ \A m \in movies', n \in movies' : m.id = n.id => m = n
    /\ \A n \in movies' : \E u \in users' : u.id = n.user_id
    /\ \A n \in movies' :
          \/ \E m \in movies : m.id = n.id /\ m.user_id = n.user_id
          \/ /\ Answered
             /\ resp'.op = "create_movie"
             /\ resp'.status = 201
             /\ n.id = movieSeq + 1
             /\ movieSeq' = movieSeq + 1
             /\ n.user_id = CallerId(resp'.cred)

\* C10: every stored movie has one owner, an existing user; a row enters
\* the table only by a create_movie, with the caller as owner and a fresh
\* id, and no step changes the id or the owner of a row.
C10_OwnerImmutable == [][C10_Step]_vars

\* an update naming another owner and id came back with both as created
C10_Witness ==
    /\ resp.op = "update_movie"
    /\ resp.status = 200
    /\ "user_id" \in DOMAIN resp.body
    /\ resp.body["user_id"] # resp.out[1].user_id
    /\ resp.body["id"] # resp.out[1].id
    /\ resp.out[1].rating = resp.body["rating"]

\* the UPDATE of slot w has been committed and its request not yet answered
Written(w) ==
    /\ req[w].op = "update_movie"
    /\ req[w].pc = "read"
    /\ DOMAIN req[w].body \cap FieldSet # {}

\* the fields of the body of slot w are the last ones written to row m
WroteLast(w, m) ==
    /\ Written(w)
    /\ req[w].mid = m.id
    /\ \A f \in DOMAIN req[w].body \cap FieldSet : m[f] = req[w].body[f]

\* what C11 asks of every step
C11_Step ==
    \A v \in Workers :
        WriteStep(v) =>
            \A m \in Owned(req[v].mid, req[v].cred) :
                \E n \in movies' :
                    /\ n.id = m.id
                    /\ movies' = (movies \ {m}) \cup {n}
                    /\ IF NullsTitle(v)
                       THEN n = m
                       ELSE /\ \A f \in FieldSet :
                                 n[f] = IF f \in DOMAIN req[v].body
                                        THEN req[v].body[f] ELSE m[f]
                            /\ \A w \in Workers \ {v} :
                                 WroteLast(w, m) =>
                                     \A f \in FieldSet :
                                         n[f] =
                                           IF f \in DOMAIN req[v].body
                                           THEN req[v].body[f]
                                           ELSE IF f \in DOMAIN req[w].body
                                           THEN req[w].body[f]
                                           ELSE m[f]

\* C11: of two update_movie requests of the owner racing on one movie, each
\* UPDATE writes all of its fields in one step or none; a field both set
\* ends with the value of the later UPDATE, a field one of them sets with
\* that request's value, and a field neither sets stays as it was.
C11_LastWriteWins == [][C11_Step]_vars

\* two updates checked before either wrote, both written and unanswered:
\* the rating is the second writer's, director and genre one from each
C11_Witness ==
    \E v \in Workers, w \in Workers :
        /\ v # w
        /\ Written(v) /\ Written(w)
        /\ req[v].mid = req[w].mid
        /\ req[v].body = [rating |-> Some("9.5"), director |-> Some("Lynch")]
        /\ req[w].body = [rating |-> Some("1.0"), genre |-> Some("noir")]
        /\ \E m \in movies :
              /\ m.id = req[v].mid
              /\ m.rating = Some("1.0")
              /\ m.director = Some("Lynch")
              /\ m.genre = Some("noir")
              /\ m.description = Some("spice")

\* the request in slot w carries none of the fields of MovieUpdate
ZeroFields(r) == r.op = "update_movie" /\ DOMAIN r.body \cap FieldSet = {}

\* this step is the final SELECT of the update_movie request in slot w
ReadStep(w) ==
    req[w].op = "update_movie" /\ req[w].pc = "read" /\ req'[w] = Idle

\* what C12 asks of every step
C12_Step ==
    \A w \in Workers :
        /\ (req[w] = Idle /\ ZeroFields(req'[w])) =>
              /\ req'[w].pc = "read"
              /\ Owned(req'[w].mid, req'[w].cred) # {}
              /\ movies' = movies
        /\ (ZeroFields(req[w]) /\ req'[w] # req[w]) =>
              /\ ReadStep(w)
              /\ movies' = movies
              /\ resp'.op = "update_movie"
              /\ resp'.body = req[w].body
              /\ \A m \in movies :
                    m.id = req[w].mid =>
                        resp'.status = 200 /\ resp'.out = <<m>>

\* C12: update_movie by the owner with none of the fields present runs no
\* UPDATE: its steps leave the movies table as it is, and it answers the
\* record as stored at its final read.
C12_EmptyUpdateNoOp == [][C12_Step]_vars

\* an update without fields answered the record with the rating an earlier
\* update had written
C12_Witness ==
    /\ resp.op = "update_movie"
    /\ resp.status = 200
    /\ resp.body = EmptyBody
    /\ resp.out[1] \in movies
    /\ resp.out[1].rating = Some("9.5")
    /\ resp.out[1].title = Some("Dune")

\* what C13 asks of every step
C13_Step ==
    (Answered /\ resp'.op = "get_movies" /\ resp'.status = 200) =>
        LET mine == {m \in movies' : m.user_id = CallerId(resp'.cred)}
        IN /\ {resp'.out[i] : i \in 1..Len(resp'.out)} = mine
           /\ Len(resp'.out) = Cardinality(mine)
           /\ movies' = movies

\* C13: the list of an authenticated user is exactly the rows stored with
\* that user as owner, each once and with its stored values; rows of other
\* users and deleted rows are not in it.
C13_ListIsOwnersRows == [][C13_Step]_vars

\* a list answered the caller's movie with its updated rating and left out
\* the movie another user holds
C13_Witness ==
    /\ resp.op = "get_movies"
    /\ resp.status = 200
    /\ Len(resp.out) = 1
    /\ resp.out[1].rating = Some("9.5")
    /\ \E m \in movies : m.user_id # CallerId(resp.cred)

\* C14: in every state, also those reached by racing register requests, no
\* two user rows have the same handle (handles that differ in case are
\* different handles) or the same id, and no two movie rows the same id.
C14_UniqueKeys ==
    /\ \A u \in users, v \in users :
          (u.username = v.username \/ u.id = v.id) => u = v
    /\ \A m \in movies, n \in movies : m.id = n.id => m = n
    /\ \A u \in users : u.id \in 1..userSeq
    /\ \A m \in movies : m.id \in 1..movieSeq

\* a register that lost the race for its handle was refused by the UNIQUE
\* constraint, both spellings of the handle being registered
C14_Witness ==
    /\ resp.op = "register"
    /\ resp.status = 500
    /\ {u.username : u \in users} = Handles
    /\ Cardinality(users) = Cardinality(Handles)
    /\ Cardinality(movies) = MaxMovies

\* what C15 asks of every step
C15_Step ==
    (Answered /\ resp'.op = "login") =>
        /\ (~StoredHashMatches(resp'.username, resp'.password)) =>
              resp'.status = 401
        /\ (resp'.status # 200) =>
              /\ resp' = AuthResponse("login", resp'.username,
                                      resp'.password, 401,
                                      "Incorrect username or password", <<>>)
              /\ UNCHANGED <<users, movies, userSeq, movieSeq, issued, req>>

\* C15: a login for a handle that is not registered and a login with the
\* wrong password for one that is are refused with the same response (401,
\* the same detail, no token), and a refused login changes no state.
C15_LoginFailureUniform == [][C15_Step]_vars

\* a login with the wrong password for a registered handle was refused,
\* another handle not being registered
C15_Witness ==
    /\ resp.op = "login"
    /\ resp.status = 401
    /\ Registered(resp.username)
    /\ ~StoredHashMatches(resp.username, resp.password)
    /\ \E u \in Usernames : ~Registered(u)

\* C16: every update_movie request of an authenticated user is answered
\* NotFound or 200 with the record of that movie as stored after the
\* update, also when the owner's delete_movie of the movie commits between
\* the ownership check and the final read.
C16_UpdateNeverFaults ==
    [][(/\ Answered
        /\ resp'.op = "update_movie"
        /\ CallerId(resp'.cred) # 0) =>
          \/ NotFound(resp')
          \/ /\ resp'.status = 200
             /\ \E m \in movies' : m.id = resp'.mid /\ resp'.out = <<m>>]_vars

\* C17: whenever the token of the frontend session is not None it is an
\* access token the API issued for the username of the session, and a list
\* requested with it is answered as that user's.
C17_SessionTokenIssued ==
    /\ (session_state.token # PyNone) =>
          /\ session_state.token.type = "str"
          /\ session_state.token.str \in issued
          /\ session_state.username = Some(session_state.token.str.sub)
    /\ (resp.op = "get_movies") => resp.status = 200

\* register Conflict, login Unauthorized, a protected operation turned
\* down for its credentials, and get/update/delete NotFound
ErrorOutcome(r) ==
    \/ r.op = "register" /\ r.status = 400
    \/ r.op = "login" /\ r.status = 401
    \/ r.op \in ProtectedOps /\ r.status \in {401, 403}
    \/ r.op \in {"get_movie", "update_movie", "delete_movie"} /\ NotFound(r)

\* what C18 asks of every step
C18_Step ==
    (Answered /\ ErrorOutcome(resp')) =>
        /\ UNCHANGED <<users, movies, userSeq, movieSeq>>
        /\ \A w \in Workers : req'[w] = req[w]

\* C18: a request answered with an error outcome (register Conflict, login
\* Unauthorized, Unauthorized on a protected operation, NotFound on get,
\* update or delete) leaves the users and the movies table as they were;
\* the DELETE behind a NotFound has removed no row.
C18_ErrorsChangeNothing == [][C18_Step]_vars

\* a delete of another user's movie answered NotFound, the row being in
\* the table
C18_Witness ==
    /\ resp.op = "delete_movie"
    /\ NotFound(resp)
    /\ \E m \in movies :
          m.id = resp.mid /\ m.user_id # CallerId(resp.cred)

\* what C19 asks of every step
C19_Step ==
    /\ movieSeq' >= movieSeq
    /\ \A m \in movies : m.id <= movieSeq
    /\ (Answered /\ resp'.op = "create_movie" /\ resp'.status = 201) =>
          /\ resp'.mid > movieSeq
          /\ movieSeq' = resp'.mid
          /\ \E m \in movies' \ movies : m.id = resp'.mid
    /\ (/\ Answered
        /\ req' = req
        /\ resp'.op \in {"get_movie", "update_movie", "delete_movie"}
        /\ resp'.mid <= movieSeq
        /\ \A m \in movies : m.id # resp'.mid) =>
          NotFound(resp') /\ movies' = movies

\* C19: create_movie assigns an id greater than every id assigned before,
\* those of deleted movies included; get_movie, update_movie and
\* delete_movie on the id of a deleted movie answer NotFound whatever was
\* created since.
C19_IdsNeverReused == [][C19_Step]_vars

\* the first movie was deleted, another created after it, and an update of
\* the deleted id answered NotFound
C19_Witness ==
    /\ resp.op = "update_movie"
    /\ NotFound(resp)
    /\ resp.mid = 1
    /\ \A m \in movies : m.id # 1
    /\ movieSeq = MaxMovies
    /\ \E m \in movies : m.id = MaxMovies /\ m.user_id = CallerId(resp.cred)

====
